---- MODULE Spec2Model ----
(***************************************************************************)
(* json_io: load a value from a JSON file, save a value to a JSON file.    *)
(* The model covers both codec backends of src/src/lib.rs (mod serde and   *)
(* mod rustc_serialize), the file system the two functions act on, and     *)
(* the sequence of underlying file and codec operations each call makes.   *)
(*                                                                         *)
(* Bytes are tokens: "q" is the double quote, "b" the backslash, "a" a     *)
(* plain letter, "[" "]" "{" the JSON punctuation and "xFF" a byte that is *)
(* not valid UTF-8. A path is the sequence of the tokens of its file name. *)
(***************************************************************************)
EXTENDS Integers, Sequences, FiniteSets, TLC

VARIABLES backend, fs, last, saved

vars == <<backend, fs, last, saved>>

(***************************************************************************)
(* Bounds and universes                                                    *)
(***************************************************************************)
MaxStrLen == 1

\* Files on disk at the start at paths that are not a .json target.
MaxStale == 1

\* Characters of the String values that are saved: the double quote, which the
\* encoder has to escape. Plain letters reach load from files already on disk.
StrChars == {"q"}

Strings == UNION {[1..n -> StrChars] : n \in 0..MaxStrLen}

Backends == {"rustc_serialize", "serde"}

NoPath == <<>>

Data == <<"data">>

DataJson == <<"data", ".", "json">>

DataTxt == <<"data", ".", "txt">>

Paths == {Data, DataJson, DataTxt}

(***************************************************************************)
(* Values of the target type T: a String, or a value whose Encodable /     *)
(* Serialize implementation returns an error.                              *)
(***************************************************************************)
Str(s) == [kind |-> "String", s |-> s]

Unencodable == [kind |-> "Unencodable", s |-> <<>>]

NoValue == [kind |-> "none", s |-> <<>>]

Values == {Str(s) : s \in Strings} \cup {Unencodable}

(***************************************************************************)
(* Results of a call: Ok(value), Err(case of the Error enum, cause), or a  *)
(* panic (the thread unwinds, no Result is returned).                      *)
(***************************************************************************)
Ok(v) == [tag |-> "Ok", value |-> v, case |-> "none", kind |-> "none"]

Err(case, kind) == [tag |-> "Err", value |-> NoValue, case |-> case, kind |-> kind]

Panicked == [tag |-> "Panic", value |-> NoValue, case |-> "none", kind |-> "none"]

NoResult == [tag |-> "none", value |-> NoValue, case |-> "none", kind |-> "none"]

Op(op, path, out) == [op |-> op, path |-> path, out |-> out]

(***************************************************************************)
(* std::path::Path::with_extension: the file name is split at its last     *)
(* dot (a name without a dot, or whose only dot is its first byte, has no  *)
(* extension) and the extension is replaced.                               *)
(***************************************************************************)
LastDot(p) ==
    LET dots == {i \in 1..Len(p) : p[i] = "."}
    IN IF dots = {} THEN 0 ELSE CHOOSE i \in dots : \A j \in dots : j <= i

FileStem(p) == IF LastDot(p) <= 1 THEN p ELSE SubSeq(p, 1, LastDot(p) - 1)

WithExtensionKeep(p, ext) == IF LastDot(p) <= 1 THEN p \o <<".", ext>> ELSE p

WithExtension(p, ext) == FileStem(p) \o <<".", ext>>

(***************************************************************************)
(* The file system: every path holds no file, or a file with its bytes and *)
(* whether this process may open it for reading.                           *)
(***************************************************************************)
NoFile == [exists |-> FALSE, bytes |-> <<>>, readable |-> FALSE]

File(bytes, readable) == [exists |-> TRUE, bytes |-> bytes, readable |-> readable]

InitContents ==
    { <<"q", "a", "q">>,     \* "a"      a JSON string
      <<"[", "]">>,          \* []       well-formed, not a string
      <<"{", "a">>,          \* {a       not well-formed
      <<"xFF">> }            \* not UTF-8

InitFiles ==
    {NoFile} \cup {File(c, TRUE) : c \in InitContents} \cup {File(<<"q", "a", "q">>, FALSE)}

(***************************************************************************)
(* The codec. json::encode / serde_json::to_string of a String: the text   *)
(* in double quotes, with the quote and the backslash escaped.             *)
(***************************************************************************)
EscapeChar(c) == IF c \in {"q", "b"} THEN <<"b", c>> ELSE <<c>>

RECURSIVE Escape(_)
Escape(s) == IF s = <<>> THEN <<>> ELSE EscapeChar(Head(s)) \o Escape(Tail(s))

JsonEncode(v) ==
    IF v.kind = "String"
    THEN [ok |-> TRUE, text |-> <<"q">> \o Escape(v.s) \o <<"q">>]
    ELSE [ok |-> FALSE, text |-> <<>>]

(***************************************************************************)
(* std::str::from_utf8                                                     *)
(***************************************************************************)
ValidUtf8(bytes) == \A i \in 1..Len(bytes) : bytes[i] # "xFF"

(***************************************************************************)
(* The parser (json::Json::from_str, the syntax half of                    *)
(* serde_json::from_str): a string literal read up to its closing quote    *)
(* with its escapes undone, or the empty array; anything else, and any     *)
(* text after the value, is a syntax error.                                *)
(***************************************************************************)
SyntaxError == [ok |-> FALSE, json |-> [kind |-> "none", s |-> <<>>]]

RECURSIVE ScanString(_, _, _)
ScanString(text, i, acc) ==
    IF i > Len(text) THEN SyntaxError
    ELSE IF text[i] = "q"
         THEN IF i = Len(text)
              THEN [ok |-> TRUE, json |-> [kind |-> "String", s |-> acc]]
              ELSE SyntaxError
    ELSE IF text[i] = "b"
         THEN IF i < Len(text) /\ text[i + 1] \in {"q", "b"}
              THEN ScanString(text, i + 2, Append(acc, text[i + 1]))
              ELSE SyntaxError
    ELSE ScanString(text, i + 1, Append(acc, text[i]))

JsonFromStr(text) ==
    IF text = <<"[", "]">> THEN [ok |-> TRUE, json |-> [kind |-> "Array", s |-> <<>>]]
    ELSE IF text # <<>> /\ text[1] = "q" THEN ScanString(text, 2, <<>>)
    ELSE SyntaxError

(***************************************************************************)
(* The decoder for T = String (Decodable::decode, the data half of         *)
(* serde_json::from_str): a JSON string decodes, any other shape does not. *)
(***************************************************************************)
Decode(json) ==
    IF json.kind = "String"
    THEN [ok |-> TRUE, value |-> Str(json.s)]
    ELSE [ok |-> FALSE, value |-> NoValue]

(***************************************************************************)
(* The Error enum of each backend and the conversions into it.             *)
(***************************************************************************)
WrapIoErrorOther(kind) == Err("IO", "Other")

WrapIoError(kind) == Err("IO", kind)

ParseErrorCase(b) == IF b = "serde" THEN "Json" ELSE "JsonParserError"

DecodeErrorCaseAsParser(b) == IF b = "serde" THEN "Json" ELSE "JsonParserError"

DecodeErrorCase(b) == IF b = "serde" THEN "Json" ELSE "JsonDecoderError"

EncodeErrorCase(b) == IF b = "serde" THEN "Json" ELSE "JsonEncoderError"

\* serde: try!(std::str::from_utf8(..)); rustc_serialize: from_utf8(..).unwrap()
Utf8Failure(b) == IF b = "serde" THEN Err("Utf8", "utf8") ELSE Panicked

(***************************************************************************)
(* load                                                                    *)
(***************************************************************************)
FileOpen(disk, p) ==
    IF ~disk[p].exists THEN "NotFound"
    ELSE IF ~disk[p].readable THEN "PermissionDenied"
    ELSE "ok"

FallbackOnAnyError(kind) == TRUE

FallbackOnError(kind) == kind = "NotFound"

OpenExactOnly(disk, p) ==
    [file |-> p, out |-> FileOpen(disk, p), log |-> <<Op("open", p, FileOpen(disk, p))>>]

OpenJsonFirst(disk, p) ==
    LET q == WithExtension(p, "json")
        first == FileOpen(disk, q)
        second == FileOpen(disk, p)
    IN IF first = "ok"
       THEN [file |-> q, out |-> "ok", log |-> <<Op("open", q, "ok")>>]
       ELSE [file |-> p, out |-> second,
             log |-> <<Op("open", q, first), Op("open", p, second)>>]

OpenForLoad(disk, p) ==
    LET first == FileOpen(disk, p)
        q == WithExtension(p, "json")
        second == FileOpen(disk, q)
    IN IF first = "ok"
       THEN [file |-> p, out |-> "ok", log |-> <<Op("open", p, "ok")>>]
       ELSE IF FallbackOnError(first)
       THEN [file |-> q, out |-> second,
             log |-> <<Op("open", p, first), Op("open", q, second)>>]
       ELSE [file |-> p, out |-> first, log |-> <<Op("open", p, first)>>]

\* The codec stage of load, on text that is valid UTF-8.
FromStr(b, text, log) ==
    LET parsed == JsonFromStr(text)
        decoded == Decode(parsed.json)
    IN IF ~parsed.ok
       THEN [res |-> Err(ParseErrorCase(b), "parse"),
             log |-> Append(log, Op("parse", NoPath, "err"))]
       ELSE IF ~decoded.ok
       THEN [res |-> Err(DecodeErrorCase(b), "decode"),
             log |-> log \o <<Op("parse", NoPath, "ok"), Op("decode", NoPath, "err")>>]
       ELSE [res |-> Ok(decoded.value),
             log |-> log \o <<Op("parse", NoPath, "ok"), Op("decode", NoPath, "ok")>>]

LoadCall(b, disk, p, fault) ==
    LET o == OpenForLoad(disk, p)
        contents == disk[o.file].bytes
        readLog == Append(o.log, Op("read", o.file, "ok"))
    IN IF o.out # "ok" THEN [res |-> WrapIoError(o.out), log |-> o.log]
       ELSE IF fault = "read"
       THEN [res |-> WrapIoError("Other"),
             log |-> Append(o.log, Op("read", o.file, "Other"))]
       ELSE IF ~ValidUtf8(contents)
       THEN [res |-> Utf8Failure(b),
             log |-> Append(readLog, Op("from_utf8", NoPath, "err"))]
       ELSE FromStr(b, contents, Append(readLog, Op("from_utf8", NoPath, "ok")))

(***************************************************************************)
(* save                                                                    *)
(***************************************************************************)
\* File::create: a new file is created, an existing one is truncated.
FileCreateNoTruncate(f) == IF f.exists THEN f ELSE File(<<>>, TRUE)

FileCreate(f) == File(<<>>, IF f.exists THEN f.readable ELSE TRUE)

\* Bytes written from offset 0 over what the file holds.
WriteAt0(old, data) == data \o SubSeq(old, Len(data) + 1, Len(old))

SaveWriteResultIgnored(out) == Ok(NoValue)

SaveWriteResult(out) == IF out = "ok" THEN Ok(NoValue) ELSE WrapIoError(out)

SaveCallCreateFirst(b, disk, p, v, fault, k) ==
    LET enc == JsonEncode(v)
        target == WithExtension(p, "json")
        created == [disk EXCEPT ![target] = FileCreate(disk[target])]
        createLog == <<Op("create", target, "ok")>>
    IN IF fault = "create"
       THEN [res |-> WrapIoError("Other"), disk |-> disk,
             log |-> <<Op("create", target, "Other")>>]
       ELSE IF ~enc.ok
       THEN [res |-> Err(EncodeErrorCase(b), "encode"), disk |-> created,
             log |-> Append(createLog, Op("encode", NoPath, "err"))]
       ELSE IF fault = "write"
       THEN [res |-> SaveWriteResult("Other"),
             disk |-> [created EXCEPT ![target].bytes = SubSeq(enc.text, 1, k)],
             log |-> createLog \o <<Op("encode", NoPath, "ok"), Op("write", target, "Other")>>]
       ELSE [res |-> SaveWriteResult("ok"),
             disk |-> [created EXCEPT ![target].bytes = enc.text],
             log |-> createLog \o <<Op("encode", NoPath, "ok"), Op("write", target, "ok")>>]

SaveCall(b, disk, p, v, fault, k) ==
    LET enc == JsonEncode(v)
        target == WithExtension(p, "json")
        created == [disk EXCEPT ![target] = FileCreate(disk[target])]
        encLog == <<Op("encode", NoPath, "ok")>>
    IN IF ~enc.ok
       THEN [res |-> Err(EncodeErrorCase(b), "encode"), disk |-> disk,
             log |-> <<Op("encode", NoPath, "err")>>]
       ELSE IF fault = "create"
       THEN [res |-> WrapIoError("Other"), disk |-> disk,
             log |-> Append(encLog, Op("create", target, "Other"))]
       ELSE IF fault = "write"
       THEN [res |-> SaveWriteResult("Other"),
             disk |-> [created EXCEPT
                         ![target].bytes = WriteAt0(@, SubSeq(enc.text, 1, k))],
             log |-> encLog \o <<Op("create", target, "ok"), Op("write", target, "Other")>>]
       ELSE [res |-> SaveWriteResult("ok"),
             disk |-> [created EXCEPT ![target].bytes = WriteAt0(@, enc.text)],
             log |-> encLog \o <<Op("create", target, "ok"), Op("write", target, "ok")>>]

(***************************************************************************)
(* The state machine: the build picks a backend, the disk holds whatever   *)
(* files already exist, and the caller makes one call after another.       *)
(***************************************************************************)
NoCall == [op |-> "none", path |-> NoPath, value |-> NoValue, res |-> NoResult, log |-> <<>>]

NoSave == [path |-> NoPath, value |-> NoValue]

LoadFaults == {"none", "read"}

SaveFaults == {"none", "create", "write"}

MaxTextLen == 2 * MaxStrLen + 2

Init ==
    /\ backend \in Backends
    /\ fs \in [Paths -> InitFiles]
    /\ Cardinality({p \in Paths : p # DataJson /\ fs[p].exists}) <= MaxStale
    /\ last = NoCall
    /\ saved = NoSave

Load(p, fault) ==
    \E c \in {LoadCall(backend, fs, p, fault)} :
       /\ last' = [op |-> "load", path |-> p, value |-> NoValue, res |-> c.res, log |-> c.log]
       /\ saved' = IF last.op = "save" /\ last.res.tag = "Ok" /\ last.path = p
                   THEN [path |-> last.path, value |-> last.value]
                   ELSE NoSave
       /\ UNCHANGED <<backend, fs>>

\* fault and k say where the environment makes the call fail: "create" fails
\* File::create, "write" fails write_all after k bytes reached the file.
Save(p, v, fault, k) ==
    /\ IF fault = "write" THEN k < Len(JsonEncode(v).text) ELSE k = 0
    /\ \E c \in {SaveCall(backend, fs, p, v, fault, k)} :
          /\ fs' = c.disk
          /\ last' = [op |-> "save", path |-> p, value |-> v, res |-> c.res, log |-> c.log]
    /\ saved' = NoSave
    /\ UNCHANGED backend

Next ==
    \/ \E p \in Paths, fault \in LoadFaults : Load(p, fault)
    \/ \E p \in Paths, v \in Values, fault \in SaveFaults, k \in 0..(MaxTextLen - 1) :
          Save(p, v, fault, k)

Spec == Init /\ [][Next]_vars

(***************************************************************************)
(* Vocabulary of the claims                                                *)
(***************************************************************************)
QuotedA == <<"q", "a", "q">>

LogIndex(c) == 1..Len(c.log)

ReadFault(c) == \E i \in LogIndex(c) : c.log[i].op = "read" /\ c.log[i].out # "ok"

SaveOk(c) == c.op = "save" /\ c.res.tag = "Ok"

LastEntry(c) == c.log[Len(c.log)]

ParseFailed(c) == c.op = "load" /\ LastEntry(c) = Op("parse", NoPath, "err")

DecodeFailed(c) == c.op = "load" /\ LastEntry(c) = Op("decode", NoPath, "err")

\* This load directly follows a successful save to the same path.
LoadAfterSave == last.op = "load" /\ saved # NoSave /\ saved.path = last.path

\* File and codec operations of a call that failed.
FileOps == {"open", "read", "create", "write"}

CodecOps == {"parse", "decode", "encode"}

FailedOps(c) ==
    {i \in LogIndex(c) : c.log[i].op \in FileOps \cup CodecOps /\ c.log[i].out # "ok"}

(***************************************************************************)
(* C1 as stated: whatever files exist on disk, a successful save(p, v)     *)
(* directly followed by a load(p) that the environment lets open and read  *)
(* the saved file returns a value equal to v.                              *)
(***************************************************************************)
C1_RoundTripAnyDisk ==
    (LoadAfterSave /\ fs[DataJson].readable /\ ~ReadFault(last) /\ last.res.tag # "Panic")
        => last.res = Ok(saved.value)

(***************************************************************************)
(* C1 amended: when no file other than the .json target exists at the      *)
(* exact path p (p ends in .json, or nothing exists at p), a successful    *)
(* save(p, v) directly followed by a load(p) that the environment lets     *)
(* open and read the target returns a value equal to v.                    *)
(***************************************************************************)
C1_RoundTrip ==
    (/\ LoadAfterSave
     /\ last.path = DataJson \/ ~fs[last.path].exists
     /\ fs[DataJson].readable
     /\ ~ReadFault(last))
        => last.res = Ok(saved.value)

C1_Witness ==
    /\ LoadAfterSave
    /\ last.path = Data
    /\ ~fs[Data].exists
    /\ saved.value = Str(<<"q">>)
    /\ last.res = Ok(Str(<<"q">>))

(***************************************************************************)
(* C2: every save creates and writes only the file at the path with its    *)
(* extension replaced by json; a successful save leaves the full encoding  *)
(* of v there, so two successful saves of the same v through "data",       *)
(* "data.json" or "data.txt" leave data.json with identical content.       *)
(***************************************************************************)
C2_ExtensionNormalization ==
    [][last'.op = "save" =>
          /\ \A i \in LogIndex(last') :
                last'.log[i].op \in {"create", "write"} => last'.log[i].path = DataJson
          /\ SaveOk(last') =>
                /\ \E i \in LogIndex(last') : last'.log[i] = Op("create", DataJson, "ok")
                /\ fs'[DataJson].exists
                /\ fs'[DataJson].bytes = JsonEncode(last'.value).text
                /\ (SaveOk(last) /\ last.value = last'.value)
                      => fs'[DataJson].bytes = fs[DataJson].bytes]_vars

C2_Witness ==
    /\ SaveOk(last)
    /\ last.path = Data
    /\ ~fs[Data].exists
    /\ last.value = Str(<<"q">>)
    /\ fs[DataJson].bytes = <<"q", "b", "q", "q">>

(***************************************************************************)
(* C3: load opens the exact path first; the .json path is opened only as   *)
(* the second open, after the first failed with not-found; the file read   *)
(* is the exact path when a file exists there and the .json path           *)
(* otherwise, and its decoded contents are what load returns.              *)
(***************************************************************************)
C3_MissingFileFallback ==
    last.op = "load" =>
        /\ last.log[1].op = "open" /\ last.log[1].path = last.path
        /\ \A i \in 2..Len(last.log) :
              last.log[i].op = "open" =>
                  i = 2 /\ last.log[1].out = "NotFound" /\ last.log[2].path = DataJson
        /\ \A i \in LogIndex(last) :
              last.log[i].op = "read" =>
                  last.log[i].path = IF fs[last.path].exists THEN last.path ELSE DataJson
        /\ (~fs[last.path].exists /\ fs[DataJson] = File(QuotedA, TRUE) /\ ~ReadFault(last))
              => last.res = Ok(Str(<<"a">>))
        /\ (fs[last.path] = File(QuotedA, TRUE) /\ ~ReadFault(last))
              => last.res = Ok(Str(<<"a">>))
        /\ \A s \in Strings :
              (/\ fs[last.path].exists \/ fs[DataJson].exists
               /\ LET f == IF fs[last.path].exists THEN fs[last.path] ELSE fs[DataJson]
                  IN f.readable /\ f.bytes = JsonEncode(Str(s)).text
               /\ ~ReadFault(last))
                  => last.res = Ok(Str(s))

C3_Witness ==
    /\ last.op = "load"
    /\ last.path = Data
    /\ ~fs[Data].exists
    /\ fs[DataJson] = File(QuotedA, TRUE)
    /\ last.res = Ok(Str(<<"a">>))
    /\ Len(last.log) > 2

(***************************************************************************)
(* C4: when neither the exact path nor the .json path exists, load fails   *)
(* with the IO case carrying not-found, and performs nothing but opens.    *)
(***************************************************************************)
C4_NotFound ==
    (last.op = "load" /\ ~fs[last.path].exists /\ ~fs[DataJson].exists)
        => /\ last.res = Err("IO", "NotFound")
           /\ \A i \in LogIndex(last) : last.log[i].op = "open"

C4_Witness ==
    /\ last.op = "load"
    /\ last.path = Data
    /\ ~fs[Data].exists
    /\ ~fs[DataJson].exists
    /\ last.res = Err("IO", "NotFound")
    /\ Len(last.log) = 2

C6_FailuresAreValues ==
    last.op = "load" =>
        /\ last.res.tag \in {"Ok", "Err"}
        /\ LastEntry(last) = Op("from_utf8", NoPath, "err") => last.res.case = "Utf8"

(***************************************************************************)
(* C7 as stated: a call in which a file or codec operation failed returns  *)
(* an error, and that failure is the last operation the call made.         *)
(***************************************************************************)
C7_NoRecovery ==
    FailedOps(last) # {} => (last.res.tag = "Err" /\ FailedOps(last) = {Len(last.log)})

(***************************************************************************)
(* C7 amended: load recovers from exactly one failure, a not-found of the  *)
(* exact-path open, by opening the .json path once; every other failure of *)
(* a file or codec operation (that second open's included) ends the call   *)
(* and is forwarded in the call's result, an I/O failure with its kind.    *)
(***************************************************************************)
C7_NoRecoveryButFallback ==
    /\ \A i \in FailedOps(last) :
          \/ /\ last.op = "load"
             /\ i = 1
             /\ last.log[1] = Op("open", last.path, "NotFound")
             /\ Len(last.log) >= 2
             /\ last.log[2].op = "open"
             /\ last.log[2].path = DataJson
          \/ /\ i = Len(last.log)
             /\ last.res.tag = "Err"
             /\ last.log[i].op \in FileOps => last.res = Err("IO", last.log[i].out)
             /\ last.log[i].op \in CodecOps => last.res.case \notin {"IO", "Utf8"}
    /\ Cardinality({i \in LogIndex(last) : last.log[i].op = "open"}) <= 2
    /\ \A op \in (FileOps \cup CodecOps) \ {"open"} :
          Cardinality({i \in LogIndex(last) : last.log[i].op = op}) <= 1

C7_Witness ==
    /\ last.op = "load"
    /\ last.path = Data
    /\ last.log = <<Op("open", Data, "NotFound"), Op("open", DataJson, "PermissionDenied")>>
    /\ last.res = Err("IO", "PermissionDenied")

(***************************************************************************)
(* C8: when the exact path holds a file that may not be opened, load       *)
(* returns that open's I/O error and opens nothing else.                   *)
(***************************************************************************)
C8_OtherOpenFailure ==
    (last.op = "load" /\ fs[last.path].exists /\ ~fs[last.path].readable)
        => /\ last.res = Err("IO", "PermissionDenied")
           /\ last.log = <<Op("open", last.path, "PermissionDenied")>>

C8_Witness ==
    /\ last.op = "load"
    /\ last.path = Data
    /\ fs[Data].exists /\ ~fs[Data].readable
    /\ fs[DataJson] = File(QuotedA, TRUE)
    /\ last.res = Err("IO", "PermissionDenied")

(***************************************************************************)
(* C9: a save changes no file but the .json target, and a successful save  *)
(* leaves the target holding exactly the encoding of v.                    *)
(***************************************************************************)
C9_SaveFrame ==
    [][last'.op = "save" =>
          /\ \A q \in Paths \ {DataJson} : fs'[q] = fs[q]
          /\ SaveOk(last') =>
                fs'[DataJson] = File(JsonEncode(last'.value).text,
                                     IF fs[DataJson].exists THEN fs[DataJson].readable ELSE TRUE)]_vars

C9_Witness ==
    /\ SaveOk(last)
    /\ last.path = DataTxt
    /\ fs[DataTxt] = File(QuotedA, TRUE)
    /\ last.value = Str(<<>>)
    /\ fs[DataJson].bytes = <<"q", "q">>

(***************************************************************************)
(* C10: a save whose encoding fails returns the encode error, makes no     *)
(* file operation and leaves the file system unchanged; a save changes the *)
(* file system only after encoding succeeded, and a failed save that       *)
(* changed the target failed with an I/O error at the create or the write. *)
(***************************************************************************)
C10_EncodeBeforeCreate ==
    [][last'.op = "save" =>
          /\ ~JsonEncode(last'.value).ok =>
                /\ fs' = fs
                /\ last'.log = <<Op("encode", NoPath, "err")>>
                /\ last'.res.tag = "Err"
                /\ last'.res.case = IF backend = "serde" THEN "Json" ELSE "JsonEncoderError"
          /\ fs' # fs =>
                /\ last'.log[1] = Op("encode", NoPath, "ok")
                /\ last'.log[2] = Op("create", DataJson, "ok")
          /\ (fs' # fs /\ last'.res.tag # "Ok") => last'.res.case = "IO"]_vars

C10_Witness ==
    /\ last.op = "save"
    /\ last.value = Unencodable
    /\ last.res.tag = "Err"
    /\ last.res.kind = "encode"
    /\ fs[DataJson] = File(QuotedA, TRUE)

====
